---- MODULE Spec2Model ----
(***************************************************************************)
(* A model of reference_model/convolution_py.py: the ConvolutionLayer      *)
(* class (constructor, _calculate_padding_amount, forward) and the caller  *)
(* script that builds a weight list, constructs layers from it and calls   *)
(* forward.                                                                *)
(*                                                                         *)
(* Python lists are 0-based, TLA+ sequences 1-based: the list element      *)
(* x[i] is the sequence element x[i + 1].  A float is modelled by the      *)
(* exact rational <<numerator, denominator>> it stands for (denominator    *)
(* > 0, lowest terms), so that 1.0 / 9 is <<1, 9>> and 0.0 is <<0, 1>>.    *)
(***************************************************************************)
EXTENDS Integers, Sequences, FiniteSets, TLC

VARIABLES heap, layer, call_args, pc, frame, input_image_data, tensors

vars == <<heap, layer, call_args, pc, frame, input_image_data, tensors>>

----------------------------------------------------------------------------
(* Bounds of the model.                                                    *)

\* largest kernel_size, stride and channel counts the caller script tries
MaxKernel == 3
MaxStride == 2
MaxChannels == 2
\* largest input height and width the caller script tries
MaxDim == 3
\* number of concurrent callers of forward in SpecConc, and their input size
NumCallers == 2
ConcDim == 2
\* largest kernel_size, stride and input height or width in SpecPad
MaxPadKernel == 3
MaxPadStride == 3
MaxPadDim == 32

----------------------------------------------------------------------------
(* Floats as exact rationals.                                              *)

Abs(n) == IF n < 0 THEN -n ELSE n

RECURSIVE Gcd(_, _)
Gcd(a, b) == IF b = 0 THEN a ELSE Gcd(b, a % b)

Norm(q) ==
  LET g == Gcd(Abs(q[1]), q[2])
  IN  <<q[1] \div g, q[2] \div g>>

Float(n) == <<n, 1>>
Zero == Float(0)
FMul(a, b) == Norm(<<a[1] * b[1], a[2] * b[2]>>)
FAdd(a, b) == Norm(<<a[1] * b[2] + b[1] * a[2], a[2] * b[2]>>)
FDiv(a, b) == Norm(<<a[1] * b[2], a[2] * b[1]>>)

Max(a, b) == IF a >= b THEN a ELSE b
Min(S) == CHOOSE x \in S : \A y \in S : x <= y

\* the first element of the list of optional results f that is not None
FirstSome(f) ==
  LET S == {i \in DOMAIN f : f[i] # <<>>}
  IN  IF S = {} THEN <<>> ELSE f[Min(S)]

----------------------------------------------------------------------------
(* ConvolutionLayer.__init__                                               *)

VALID == 0
SAME == 1

ValueError(msg) == <<"ValueError", msg>>
Mismatch(msg, expected, got) == <<"ValueError", msg, expected, got>>

\* CheckRows with lines 34-36 left out
CheckRows_absent(ic_weights, kernel_size) == <<>>

\* lines 34-36: the rows of one [k_h][k_w] block
CheckRows(ic_weights, kernel_size) ==
  FirstSome([r \in 1..Len(ic_weights) |->
    IF Len(ic_weights[r]) # kernel_size
    THEN Mismatch("Kernel weights width dimension mismatch.",
                  kernel_size, Len(ic_weights[r]))
    ELSE <<>>])

\* lines 31-36: the [k_h][k_w] blocks of one output channel
CheckBlocks(oc_weights, kernel_size) ==
  FirstSome([b \in 1..Len(oc_weights) |->
    IF Len(oc_weights[b]) # kernel_size
    THEN Mismatch("Kernel weights height dimension mismatch.",
                  kernel_size, Len(oc_weights[b]))
    ELSE CheckRows(oc_weights[b], kernel_size)])

\* lines 26-36: the exception the dimension checks raise, <<>> when none
CheckWeights(w, args) ==
  IF Len(w) # args.output_channels
  THEN Mismatch("Kernel weights outer dimension mismatch.",
                args.output_channels, Len(w))
  ELSE FirstSome([o \in 1..Len(w) |->
    IF Len(w[o]) # args.input_channels
    THEN Mismatch("Kernel weights input_channels dimension mismatch.",
                  args.input_channels, Len(w[o]))
    ELSE CheckBlocks(w[o], args.kernel_size)])

\* CheckArgs with the padding-mode check moved behind the channel checks
CheckArgs_mode_last(w, args) ==
  IF ~(args.kernel_size > 0)
  THEN ValueError("Kernel size must be a positive integer.")
  ELSE IF ~(args.stride > 0)
  THEN ValueError("Stride must be a positive integer.")
  ELSE IF ~(args.input_channels > 0)
  THEN ValueError("Input channels must be a positive integer.")
  ELSE IF ~(args.output_channels > 0)
  THEN ValueError("Output channels must be a positive integer.")
  ELSE IF args.padding_mode \notin {VALID, SAME}
  THEN ValueError("Padding mode must be 0 (VALID) or 1 (SAME).")
  ELSE IF w = <<>>
  THEN ValueError("Initial kernel weights cannot be empty.")
  ELSE <<>>

\* lines 5-16: the exception the argument checks raise, <<>> when none
CheckArgs(w, args) ==
  IF ~(args.kernel_size > 0)
  THEN ValueError("Kernel size must be a positive integer.")
  ELSE IF ~(args.stride > 0)
  THEN ValueError("Stride must be a positive integer.")
  ELSE IF args.padding_mode \notin {VALID, SAME}
  THEN ValueError("Padding mode must be 0 (VALID) or 1 (SAME).")
  ELSE IF ~(args.input_channels > 0)
  THEN ValueError("Input channels must be a positive integer.")
  ELSE IF ~(args.output_channels > 0)
  THEN ValueError("Output channels must be a positive integer.")
  ELSE IF w = <<>>
  THEN ValueError("Initial kernel weights cannot be empty.")
  ELSE <<>>

\* lines 18-23: the object the constructor fills in; kernel_weights holds
\* the reference it was given, not a copy of the list
NewSelf(ref, args) ==
  [kernel_size |-> args.kernel_size, stride |-> args.stride,
   padding_mode |-> args.padding_mode,
   input_channels |-> args.input_channels,
   output_channels |-> args.output_channels,
   kernel_weights |-> ref]

\* lines 4-36: what the call ConvolutionLayer(..., initial_kernel_weights=ref)
\* gives its caller: the object, or the exception raised and no object
ConvolutionLayer(h, ref, args) ==
  LET e1 == CheckArgs(h[ref], args)
      e2 == IF e1 # <<>> THEN e1 ELSE CheckWeights(h[ref], args)
  IN  IF e2 # <<>>
      THEN [state |-> "raised", self |-> <<>>, exc |-> e2]
      ELSE [state |-> "ok", self |-> <<NewSelf(ref, args)>>, exc |-> <<>>]

Unbuilt == [state |-> "unbuilt", self |-> <<>>, exc |-> <<>>]

----------------------------------------------------------------------------
(* ConvolutionLayer._calculate_padding_amount and the output dimensions    *)

\* math.ceil(q) and int(q) of a float q
Ceil(q) == -((-q[1]) \div q[2])
Trunc(q) == IF q[1] >= 0 THEN q[1] \div q[2] ELSE -((-q[1]) \div q[2])

\* calculate_padding_amount without the max(0, ...) of line 41
calculate_padding_amount_unclamped(self, input_dim, target_output_dim) ==
  LET padding == FDiv(Float((target_output_dim - 1) * self.stride
                            + self.kernel_size - input_dim), Float(2))
  IN  Trunc(padding)

\* lines 38-41
calculate_padding_amount(self, input_dim, target_output_dim) ==
  LET padding == FDiv(Float((target_output_dim - 1) * self.stride
                            + self.kernel_size - input_dim), Float(2))
  IN  Max(0, Trunc(padding))

\* valid_output_dim without the + 1
valid_output_dim_short(self, input_dim) ==
  (input_dim - self.kernel_size) \div self.stride

\* lines 61-62: the VALID output dimension ('//' rounds toward minus infinity)
valid_output_dim(self, input_dim) ==
  (input_dim - self.kernel_size) \div self.stride + 1

\* same_output_dim with '//' in place of math.ceil(... / ...)
same_output_dim_floor(self, input_dim) ==
  input_dim \div self.stride

\* lines 64-65: the SAME output dimension
same_output_dim(self, input_dim) ==
  Ceil(FDiv(Float(input_dim), Float(self.stride)))

\* lines 57-67: forward's locals once the padding mode is dispatched
derive_dims(self, input_height, input_width) ==
  IF self.padding_mode = VALID
  THEN [output_height |-> valid_output_dim(self, input_height),
        output_width |-> valid_output_dim(self, input_width),
        padding_h |-> 0, padding_w |-> 0]
  ELSE LET oh == same_output_dim(self, input_height)
           ow == same_output_dim(self, input_width)
       IN  [output_height |-> oh, output_width |-> ow,
            padding_h |-> calculate_padding_amount(self, input_height, oh),
            padding_w |-> calculate_padding_amount(self, input_width, ow)]

----------------------------------------------------------------------------
(* ConvolutionLayer.forward                                                *)

\* lines 49-52: the exception the input checks raise, <<>> when none
check_input(self, input_image) ==
  IF input_image = <<>> \/ input_image[1] = <<>> \/ input_image[1][1] = <<>>
  THEN ValueError("Input image cannot be empty.")
  ELSE IF Len(input_image) # self.input_channels
  THEN Mismatch("Input image channels mismatch.",
                self.input_channels, Len(input_image))
  ELSE <<>>

\* check_output_dims with lines 72-73 left out
check_output_dims_absent(d) == <<>>

\* lines 72-73
check_output_dims(d) ==
  IF d.output_height <= 0 \/ d.output_width <= 0
  THEN ValueError("Output dimensions are non-positive. Check kernel size, stride, and input dimensions.")
  ELSE <<>>

\* lines 75-78: the list the comprehension builds
zeros(channels, height, width) ==
  [c \in 1..channels |-> [h \in 1..height |-> [w \in 1..width |-> Zero]]]

\* allocate handing out one list object again and again, as a forward
\* that kept its output buffer between calls would
allocate_reused(store, value) ==
  [id |-> 1,
   store |-> IF Len(store) = 0 THEN <<value>> ELSE [store EXCEPT ![1] = value]]

\* lines 75-78: the comprehension allocates a new list object; the store
\* of output lists grows by one and the new object's id is returned
allocate(store, value) ==
  [id |-> Len(store) + 1, store |-> Append(store, value)]

\* the in_c loop of line 84 run for the first channel only
in_c_range_first_only(self) == 0..0

\* line 84: range(self.input_channels)
in_c_range(self) == 0..(self.input_channels - 1)

\* lines 85-86: range(self.kernel_size)
k_range(self) == 0..(self.kernel_size - 1)

\* lines 87-88
h_idx(self, f, out_h, k_h) == out_h * self.stride + k_h - f.padding_h
w_idx(self, f, out_w, k_w) == out_w * self.stride + k_w - f.padding_w

\* line 91
in_bounds(f, h, w) ==
  0 <= h /\ h < f.input_height /\ 0 <= w /\ w < f.input_width

\* line 92 raises IndexError when the list it indexes is too short (a
\* channel with fewer rows, or a row with fewer columns, than the first)
read_raises(input_image, in_c, h, w) ==
  \/ h + 1 > Len(input_image[in_c + 1])
  \/ w + 1 > Len(input_image[in_c + 1][h + 1])

\* pixel_value without the lower bounds of line 91: a negative index then
\* reads from the end of the list, as Python's indexing does
pixel_value_wrapping(f, input_image, in_c, h, w) ==
  LET hh == h % f.input_height
      ww == w % f.input_width
  IN  IF h < f.input_height /\ w < f.input_width
         /\ ~read_raises(input_image, in_c, hh, ww)
      THEN input_image[in_c + 1][hh + 1][ww + 1]
      ELSE Zero

\* lines 90-92
pixel_value(f, input_image, in_c, h, w) ==
  IF in_bounds(f, h, w) THEN input_image[in_c + 1][h + 1][w + 1] ELSE Zero

\* lines 86-94: current_sum, acc before the k_w loop, after its first n
\* passes; each pass adds to the value the passes before it left (prev)
RECURSIVE after_k_w(_, _, _, _, _)
after_k_w(cx, in_c, k_h, n, acc) ==
  IF n = 0 THEN acc
  ELSE LET k_w == n - 1
           h == h_idx(cx.self, cx.f, cx.out_h, k_h)
           v == w_idx(cx.self, cx.f, cx.out_w, k_w)
           weight == cx.w[cx.out_c + 1][in_c + 1][k_h + 1][k_w + 1]
       IN  CHOOSE s \in {FAdd(prev, FMul(pixel_value(cx.f, cx.input_image, in_c, h, v),
                                         weight)) :
                         prev \in {after_k_w(cx, in_c, k_h, n - 1, acc)}} : TRUE

\* lines 85-94: current_sum, acc before the k_h loop, after its first n passes
RECURSIVE after_k_h(_, _, _, _)
after_k_h(cx, in_c, n, acc) ==
  IF n = 0 THEN acc
  ELSE CHOOSE s \in {after_k_w(cx, in_c, n - 1, cx.self.kernel_size, prev) :
                     prev \in {after_k_h(cx, in_c, n - 1, acc)}} : TRUE

\* lines 84-94: current_sum after the passes of the in_c loop for the
\* channels below n
RECURSIVE after_in_c(_, _)
after_in_c(cx, n) ==
  IF n = 0 THEN Zero
  ELSE CHOOSE s \in {IF n - 1 \in in_c_range(cx.self)
                     THEN after_k_h(cx, n - 1, cx.self.kernel_size, prev)
                     ELSE prev :
                     prev \in {after_in_c(cx, n - 1)}} : TRUE

\* lines 83-94: current_sum when line 95 stores it
current_sum(self, w, f, input_image, out_c, out_h, out_w) ==
  after_in_c([self |-> self, w |-> w, f |-> f, input_image |-> input_image,
              out_c |-> out_c, out_h |-> out_h, out_w |-> out_w],
             self.input_channels)

\* whether some pass through the loop body for this cell raises IndexError
cell_raises(self, f, input_image, out_h, out_w) ==
  \E in_c \in in_c_range(self), k_h \in k_range(self), k_w \in k_range(self) :
    LET h == h_idx(self, f, out_h, k_h)
        v == w_idx(self, f, out_w, k_w)
    IN  in_bounds(f, h, v) /\ read_raises(input_image, in_c, h, v)

\* lines 81-82: the loop position after (out_c, out_h, out_w)
next_cell(f, out_c, out_h, out_w) ==
  IF out_w + 1 < f.output_width THEN <<out_c, out_h, out_w + 1>>
  ELSE IF out_h + 1 < f.output_height THEN <<out_c, out_h + 1, 0>>
  ELSE <<out_c + 1, 0, 0>>

NoFrame ==
  [self |-> "", input_height |-> 0, input_width |-> 0,
   padding_h |-> 0, padding_w |-> 0, output_height |-> 0, output_width |-> 0,
   output_image |-> 0, cell |-> <<0, 0, 0>>, exc |-> <<>>]

\* lines 43-97 run from the call to the return with nothing in between:
\* the exception raised, or the list returned
forward(self, w, input_image) ==
  LET e1 == check_input(self, input_image)
      d == derive_dims(self, Len(input_image[1]), Len(input_image[1][1]))
      e2 == IF e1 # <<>> THEN e1 ELSE check_output_dims(d)
      f == [NoFrame EXCEPT !.input_height = Len(input_image[1]),
                           !.input_width = Len(input_image[1][1]),
                           !.padding_h = d.padding_h, !.padding_w = d.padding_w,
                           !.output_height = d.output_height,
                           !.output_width = d.output_width]
  IN  IF e2 # <<>> THEN [exc |-> e2, value |-> <<>>]
      ELSE IF \E oh \in 0..(d.output_height - 1), ow \in 0..(d.output_width - 1) :
                cell_raises(self, f, input_image, oh, ow)
      THEN [exc |-> <<"IndexError", "list index out of range">>, value |-> <<>>]
      ELSE [exc |-> <<>>,
            value |-> [oc \in 1..self.output_channels |->
                        [oh \in 1..d.output_height |->
                          [ow \in 1..d.output_width |->
                            current_sum(self, w, f, input_image,
                                        oc - 1, oh - 1, ow - 1)]]]]

----------------------------------------------------------------------------
(* The caller script (the __main__ block): its constants and its data.     *)

KERNEL_SIZE == 3
STRIDE == 1
STRIDE_2 == 2
INPUT_CHANNELS == 3
OUTPUT_CHANNELS == 1
INPUT_HEIGHT == 32

\* the script's variables that hold layers, and its callers of forward
AllLayers == {"conv_layer_valid", "conv_layer_same_s2"}
Callers == 1..NumCallers

Front(q) == SubSeq(q, 1, Len(q) - 1)

\* lines 158-162: the input the script builds, for any dimensions
Image(channels, height, width) ==
  [c \in 1..channels |-> [h \in 1..height |-> [w \in 1..width |->
     Float((c - 1) * 100 + (h - 1) * 10 + (w - 1))]]]

\* lines 141-148: a weight list with every entry 1.0 / (k * k)
AverageWeights(oc, ic, k) ==
  [o \in 1..oc |-> [i \in 1..ic |-> [r \in 1..k |-> [c \in 1..k |->
     FDiv(Float(1), Float(k * k))]]]]

\* a weight list of the given shape whose entries all differ
ProperWeights(oc, ic, k) ==
  [o \in 1..oc |-> [i \in 1..ic |-> [r \in 1..k |-> [c \in 1..k |->
     Float(c + k * (r - 1) + k * k * (i - 1) + k * k * ic * (o - 1))]]]]

\* the list w with the last element of its sublist at path p removed
Truncate(w, p) ==
  IF Len(p) = 0 THEN Front(w)
  ELSE IF Len(p) = 1 THEN [w EXCEPT ![p[1]] = Front(@)]
  ELSE IF Len(p) = 2 THEN [w EXCEPT ![p[1]][p[2]] = Front(@)]
  ELSE [w EXCEPT ![p[1]][p[2]][p[3]] = Front(@)]

\* the paths of the sublists of a well-shaped weight list
Paths(w) ==
  {<<>>} \cup {<<o>> : o \in 1..Len(w)}
  \cup {<<o, i>> : o \in 1..Len(w), i \in 1..Len(w[1])}
  \cup {<<o, i, r>> : o \in 1..Len(w), i \in 1..Len(w[1]), r \in 1..Len(w[1][1])}

\* w misshaped in the first block and again in a later sublist
TwiceTruncated(w) ==
  {Truncate(Truncate(w, p), q) :
     p \in {<<1, 1>>, <<1, 1, 1>>},
     q \in {x \in {<<Len(w)>>, <<1, Len(w[1])>>} : x # <<1>> /\ x # <<1, 1>>}}

ShapedWeights ==
  {ProperWeights(oc, ic, k) :
     oc \in 1..MaxChannels, ic \in 1..MaxChannels, k \in 1..MaxKernel}

BoxBlurWeights == AverageWeights(OUTPUT_CHANNELS, INPUT_CHANNELS, KERNEL_SIZE)

\* the weight lists the script may build before it constructs a layer
WeightLists ==
  {<<>>, BoxBlurWeights} \cup ShapedWeights
  \cup UNION {{Truncate(w, p) : p \in Paths(w)} : w \in ShapedWeights}
  \cup UNION {TwiceTruncated(w) : w \in ShapedWeights}

Args(k, s, pm, ic, oc) ==
  [kernel_size |-> k, stride |-> s, padding_mode |-> pm,
   input_channels |-> ic, output_channels |-> oc]

BoxBlurArgs == Args(KERNEL_SIZE, STRIDE, VALID, INPUT_CHANNELS, OUTPUT_CHANNELS)

\* the scalar arguments the script may pass, zero and an unknown mode included
ScalarArgs ==
  {Args(k, s, pm, ic, oc) :
     k \in 0..MaxKernel, s \in 0..MaxStride, pm \in {VALID, SAME, 2},
     ic \in 0..MaxChannels, oc \in 0..MaxChannels}

ValidScalars(args) ==
  /\ args.kernel_size > 0 /\ args.stride > 0
  /\ args.padding_mode \in {VALID, SAME}
  /\ args.input_channels > 0 /\ args.output_channels > 0

\* the argument lists the script tries with the weight list w: every
\* well-formed scalar list with every w, the others with two lists only
TriedArgs(w) ==
  {a \in ScalarArgs \cup {BoxBlurArgs} :
     ValidScalars(a) \/ w \in {<<>>, ProperWeights(1, 1, 1)}}

RectImages ==
  {Image(c, h, w) : c \in 1..MaxChannels, h \in 1..MaxDim, w \in 1..MaxDim}

BoxBlurInput == Image(INPUT_CHANNELS, 4, 4)

\* an image whose last channel lost its last row, or whose last row lost
\* its last column
RaggedImages ==
  {[x EXCEPT ![Len(x)] = Front(@)] : x \in {y \in RectImages : Len(y[1]) > 1}}
  \cup {[x EXCEPT ![Len(x)][Len(x[1])] = Front(@)] : x \in RectImages}

EmptyImages == {<<>>, << <<>> >>, << << <<>> >> >>}

InputImages == RectImages \cup RaggedImages \cup EmptyImages \cup {BoxBlurInput}

----------------------------------------------------------------------------
(* The operations.                                                         *)

WEIGHTS == "kernel_weights"

\* the script has not assigned l yet
CanConstruct(l) == layer[l].state = "unbuilt"

\* lines 168-175, 189-196: l = ConvolutionLayer(..., kernel_weights)
Construct(l, args) ==
  /\ CanConstruct(l)
  /\ layer' = [layer EXCEPT ![l] = ConvolutionLayer(heap, WEIGHTS, args)]
  /\ call_args' = [call_args EXCEPT ![l] =
                     <<[args |-> args, weights |-> heap[WEIGHTS]]>>]
  /\ UNCHANGED <<heap, pc, frame, input_image_data, tensors>>

\* the caller's statement kernel_weights[o][i][r][c] = v (0-based indices)
WriteWeight(o, i, r, c, v) ==
  /\ o < Len(heap[WEIGHTS]) /\ i < Len(heap[WEIGHTS][o + 1])
  /\ r < Len(heap[WEIGHTS][o + 1][i + 1])
  /\ c < Len(heap[WEIGHTS][o + 1][i + 1][r + 1])
  /\ heap[WEIGHTS][o + 1][i + 1][r + 1][c + 1] # v
  /\ heap' = [heap EXCEPT ![WEIGHTS][o + 1][i + 1][r + 1][c + 1] = v]
  /\ UNCHANGED <<layer, call_args, pc, frame, input_image_data, tensors>>

Self(l) == layer[l].self[1]

\* caller c has made no call yet and l holds a layer
CanCall(c, l) == pc[c] = "idle" /\ layer[l].state = "ok"

\* lines 43-78: caller c calls layer[l].forward(x); the call either raises
\* or enters the loop nest with its output list allocated
ForwardBegin(c, l, x) ==
  /\ CanCall(c, l)
  /\ input_image_data' = [input_image_data EXCEPT ![c] = x]
  /\ LET self == Self(l)
         e1 == check_input(self, x)
         d == derive_dims(self, Len(x[1]), Len(x[1][1]))
         e2 == IF e1 # <<>> THEN e1 ELSE check_output_dims(d)
         a == allocate(tensors,
                       zeros(self.output_channels, d.output_height, d.output_width))
     IN  IF e2 # <<>>
         THEN /\ pc' = [pc EXCEPT ![c] = "raised"]
              /\ frame' = [frame EXCEPT ![c] = [NoFrame EXCEPT !.self = l, !.exc = e2]]
              /\ tensors' = tensors
         ELSE /\ pc' = [pc EXCEPT ![c] = "loop"]
              /\ frame' = [frame EXCEPT ![c] =
                   [self |-> l, input_height |-> Len(x[1]), input_width |-> Len(x[1][1]),
                    padding_h |-> d.padding_h, padding_w |-> d.padding_w,
                    output_height |-> d.output_height, output_width |-> d.output_width,
                    output_image |-> a.id, cell |-> <<0, 0, 0>>, exc |-> <<>>]]
              /\ tensors' = a.store
  /\ UNCHANGED <<heap, layer, call_args>>

\* lines 80-95: one pass through the body of the out_w loop
ForwardCell(c) ==
  /\ pc[c] = "loop"
  /\ LET f == frame[c]
         self == Self(f.self)
         out_c == f.cell[1]
         out_h == f.cell[2]
         out_w == f.cell[3]
     IN  /\ out_c < self.output_channels
         /\ IF cell_raises(self, f, input_image_data[c], out_h, out_w)
            THEN /\ pc' = [pc EXCEPT ![c] = "raised"]
                 /\ frame' = [frame EXCEPT ![c].exc =
                                <<"IndexError", "list index out of range">>]
                 /\ tensors' = tensors
            ELSE /\ pc' = pc
                 /\ frame' = [frame EXCEPT ![c].cell = next_cell(f, out_c, out_h, out_w)]
                 /\ tensors' = [tensors EXCEPT
                      ![f.output_image][out_c + 1][out_h + 1][out_w + 1] =
                        current_sum(self, heap[self.kernel_weights], f,
                                    input_image_data[c], out_c, out_h, out_w)]
  /\ UNCHANGED <<heap, layer, call_args, input_image_data>>

\* line 97
ForwardReturn(c) ==
  /\ pc[c] = "loop"
  /\ frame[c].cell[1] = Self(frame[c].self).output_channels
  /\ pc' = [pc EXCEPT ![c] = "returned"]
  /\ UNCHANGED <<heap, layer, call_args, frame, input_image_data, tensors>>

----------------------------------------------------------------------------
(* Spec: the script builds a weight list, constructs one layer from it     *)
(* and calls forward once.                                                 *)

Idle ==
  /\ pc = [c \in Callers |-> "idle"]
  /\ frame = [c \in Callers |-> NoFrame]
  /\ input_image_data = [c \in Callers |-> <<>>]
  /\ tensors = <<>>

Init ==
  /\ heap \in [{WEIGHTS} -> WeightLists]
  /\ layer = [l \in AllLayers |-> Unbuilt]
  /\ call_args = [l \in AllLayers |-> <<>>]
  /\ Idle

Next ==
  \/ /\ CanConstruct("conv_layer_valid")
     /\ \E a \in TriedArgs(heap[WEIGHTS]) : Construct("conv_layer_valid", a)
  \/ /\ CanCall(1, "conv_layer_valid")
     /\ \E x \in InputImages : ForwardBegin(1, "conv_layer_valid", x)
  \/ ForwardCell(1)
  \/ ForwardReturn(1)

Spec == Init /\ [][Next]_vars

----------------------------------------------------------------------------
(* What the claims speak of.                                               *)

\* the sum f[0] + ... + f[n - 1] of floats, in exact arithmetic
RECURSIVE SumTo(_, _)
SumTo(f, n) == IF n = 0 THEN Zero ELSE FAdd(f[n - 1], SumTo(f, n - 1))

Height(x) == Len(x[1])
Width(x) == Len(x[1][1])
NonEmpty(x) == x # <<>> /\ x[1] # <<>> /\ x[1][1] # <<>>

\* every channel has the height, and every row the width, of the first
Rectangular(x) ==
  /\ NonEmpty(x)
  /\ \A c \in 1..Len(x) :
       /\ Len(x[c]) = Height(x)
       /\ \A h \in 1..Len(x[c]) : Len(x[c][h]) = Width(x)

\* the tensor t has the shape [channels][height][width] exactly
HasShape(t, channels, height, width) ==
  /\ Len(t) = channels
  /\ \A c \in 1..Len(t) :
       /\ Len(t[c]) = height
       /\ \A h \in 1..Len(t[c]) : Len(t[c][h]) = width

\* d = floor(n / s) and d = ceil(n / s), for s > 0
IsFloor(d, n, s) == d * s <= n /\ n < (d + 1) * s
IsCeil(d, n, s) == (d - 1) * s < n /\ n <= d * s

\* the layer caller c called, its weights now, and the list it allocated
Engine(c) == Self(frame[c].self)
Weights(c) == heap[Engine(c).kernel_weights]
Output(c) == tensors[frame[c].output_image]

\* the input sample of the claims: the input inside the image, 0 outside
Sample(x, ic, h, w) ==
  IF h \in 0..(Height(x) - 1) /\ w \in 0..(Width(x) - 1)
  THEN x[ic + 1][h + 1][w + 1]
  ELSE Zero

\* the value the claims give the output cell [oc][oh][ow] for input x,
\* weights w and the padding offsets of frame f
Correlation(self, w, f, x, oc, oh, ow) ==
  SumTo([ic \in 0..(self.input_channels - 1) |->
    SumTo([kh \in 0..(self.kernel_size - 1) |->
      SumTo([kw \in 0..(self.kernel_size - 1) |->
        FMul(Sample(x, ic, oh * self.stride + kh - f.padding_h,
                           ow * self.stride + kw - f.padding_w),
             w[oc + 1][ic + 1][kh + 1][kw + 1])],
        self.kernel_size)],
      self.kernel_size)],
    self.input_channels)

\* C1: when forward has returned for a rectangular input, every output
\* cell [oc][oh][ow] is the sum over ic, kh, kw of
\* sample(ic, oh*stride+kh-pad_h, ow*stride+kw-pad_w) * weights[oc][ic][kh][kw],
\* the sample being the input inside the image and exactly 0 outside it
C1_ZeroPaddedCorrelation ==
  \A c \in Callers :
    (pc[c] = "returned" /\ Rectangular(input_image_data[c])) =>
      \A oc \in 0..(Len(Output(c)) - 1) :
        \A oh \in 0..(Len(Output(c)[oc + 1]) - 1) :
          \A ow \in 0..(Len(Output(c)[oc + 1][oh + 1]) - 1) :
            Output(c)[oc + 1][oh + 1][ow + 1] =
              Correlation(Engine(c), Weights(c), frame[c],
                          input_image_data[c], oc, oh, ow)

\* a SAME call has returned whose first window starts above and left of
\* the image and whose last window ends below and right of it
C1_Witness ==
  /\ pc[1] = "returned"
  /\ Rectangular(input_image_data[1])
  /\ frame[1].padding_h > 0 /\ frame[1].padding_w > 0
  /\ (frame[1].output_height - 1) * Engine(1).stride + Engine(1).kernel_size - 1
       - frame[1].padding_h >= frame[1].input_height
  /\ Output(1)[1][1][1] # Zero

\* whether forward's preconditions on the input of caller c hold
Accepted(c) ==
  /\ Rectangular(input_image_data[c])
  /\ Len(input_image_data[c]) = Engine(c).input_channels

\* C2: in VALID mode, for an accepted input of height H >= k and width
\* W >= k, forward does not raise, its output has the shape
\* [output_channels][floor((H-k)/s)+1][floor((W-k)/s)+1] exactly, and both
\* padding offsets are 0
C2_ValidShape ==
  \A c \in Callers :
    LET x == input_image_data[c]
        e == Engine(c)
    IN  (/\ pc[c] # "idle"
         /\ e.padding_mode = VALID
         /\ Accepted(c)
         /\ Height(x) >= e.kernel_size /\ Width(x) >= e.kernel_size) =>
          /\ pc[c] # "raised"
          /\ \E dh, dw \in 1..Max(Height(x), Width(x)) :
               /\ IsFloor(dh - 1, Height(x) - e.kernel_size, e.stride)
               /\ IsFloor(dw - 1, Width(x) - e.kernel_size, e.stride)
               /\ HasShape(Output(c), e.output_channels, dh, dw)
          /\ frame[c].padding_h = 0 /\ frame[c].padding_w = 0

\* a VALID call with stride 2 has returned a tensor whose height and
\* width differ
C2_Witness ==
  /\ pc[1] = "returned"
  /\ Engine(1).padding_mode = VALID /\ Engine(1).stride = 2
  /\ Accepted(1)
  /\ Len(Output(1)[1]) = 2 /\ Len(Output(1)[1][1]) = 1

\* C3: in SAME mode, for an accepted input of height H and width W,
\* forward does not raise and its output has the shape
\* [output_channels][ceil(H/s)][ceil(W/s)] exactly, whatever the kernel
\* size; with stride 1 that is [output_channels][H][W]
C3_SameShape ==
  \A c \in Callers :
    LET x == input_image_data[c]
        e == Engine(c)
    IN  (pc[c] # "idle" /\ e.padding_mode = SAME /\ Accepted(c)) =>
          /\ pc[c] # "raised"
          /\ \E dh \in 1..Height(x), dw \in 1..Width(x) :
               /\ IsCeil(dh, Height(x), e.stride)
               /\ IsCeil(dw, Width(x), e.stride)
               /\ HasShape(Output(c), e.output_channels, dh, dw)
          /\ e.stride = 1 =>
               HasShape(Output(c), e.output_channels, Height(x), Width(x))

\* a SAME call with stride 2 on an image of odd height, smaller than the
\* kernel, has returned
C3_Witness ==
  /\ pc[1] = "returned"
  /\ Engine(1).padding_mode = SAME /\ Engine(1).stride = 2
  /\ Accepted(1)
  /\ Height(input_image_data[1]) = 3 /\ Width(input_image_data[1]) = 2
  /\ Engine(1).kernel_size = 3
  /\ Len(Output(1)[1]) = 2

\* C5: forward raises ValueError and allocates nothing when the input is
\* empty, when its channel count is not input_channels, and (VALID mode)
\* when its height or width is smaller than kernel_size; for a rectangular
\* input meeting none of these it raises nothing
C5_ForwardRejects ==
  \A c \in Callers :
    LET x == input_image_data[c]
        e == Engine(c)
        rejected ==
          \/ ~NonEmpty(x)
          \/ Len(x) # e.input_channels
          \/ /\ e.padding_mode = VALID
             /\ (Height(x) < e.kernel_size \/ Width(x) < e.kernel_size)
    IN  pc[c] # "idle" =>
          /\ rejected =>
               /\ pc[c] = "raised"
               /\ frame[c].exc[1] = "ValueError"
               /\ frame[c].output_image = 0
               /\ tensors = <<>>
          /\ (Rectangular(x) /\ ~rejected) =>
               /\ pc[c] \in {"loop", "returned"}
               /\ frame[c].exc = <<>>

\* a VALID call with stride 2 on an image narrower than the kernel raised
\* the error of lines 72-73
C5_Witness ==
  /\ pc[1] = "raised"
  /\ Engine(1).padding_mode = VALID /\ Engine(1).stride = 2
  /\ NonEmpty(input_image_data[1])
  /\ Len(input_image_data[1]) = Engine(1).input_channels
  /\ Width(input_image_data[1]) < Engine(1).kernel_size
  /\ Height(input_image_data[1]) >= Engine(1).kernel_size
  /\ frame[1].exc = ValueError("Output dimensions are non-positive. Check kernel size, stride, and input dimensions.")

\* the constructor call that built, or failed to build, layer l
Called(l) == call_args[l] # <<>>
CallArgs(l) == call_args[l][1].args
CallWeights(l) == call_args[l][1].weights

\* the weight list w has the lengths the arguments a ask for, at every level
WellShaped(a, w) ==
  /\ Len(w) = a.output_channels
  /\ \A o \in 1..Len(w) :
       /\ Len(w[o]) = a.input_channels
       /\ \A i \in 1..Len(w[o]) :
            /\ Len(w[o][i]) = a.kernel_size
            /\ \A r \in 1..Len(w[o][i]) : Len(w[o][i][r]) = a.kernel_size

\* C4: construction returns an engine exactly when kernel_size, stride,
\* input_channels and output_channels are positive, padding_mode is 0 or 1
\* and the weight list has the lengths [output_channels][input_channels]
\* [kernel_size][kernel_size]; otherwise it raises ValueError and returns
\* no object
C4_ConstructionIff ==
  \A l \in AllLayers :
    Called(l) =>
      /\ layer[l].state = "ok" <=>
           (ValidScalars(CallArgs(l)) /\ WellShaped(CallArgs(l), CallWeights(l)))
      /\ layer[l].state = "ok" =>
           (layer[l].self = <<NewSelf(WEIGHTS, CallArgs(l))>> /\ layer[l].exc = <<>>)
      /\ layer[l].state # "ok" =>
           /\ layer[l].state = "raised"
           /\ layer[l].self = <<>>
           /\ layer[l].exc[1] = "ValueError"

\* a construction with well-formed scalars failed on the length of a row
\* of the weight list
C4_Witness ==
  /\ Called("conv_layer_valid")
  /\ ValidScalars(CallArgs("conv_layer_valid"))
  /\ layer["conv_layer_valid"].state = "raised"
  /\ layer["conv_layer_valid"].exc[2] = "Kernel weights width dimension mismatch."

\* the sublist of the weight list w at path p, and the paths w has
Sub(w, p) ==
  IF Len(p) = 1 THEN w[p[1]]
  ELSE IF Len(p) = 2 THEN w[p[1]][p[2]]
  ELSE w[p[1]][p[2]][p[3]]

AllPaths(w) ==
  {<<o>> : o \in 1..Len(w)}
  \cup UNION {{<<o, i>> : i \in 1..Len(w[o])} : o \in 1..Len(w)}
  \cup UNION {UNION {{<<o, i, r>> : r \in 1..Len(w[o][i])} : i \in 1..Len(w[o])}
                : o \in 1..Len(w)}

\* the length the sublist at path p must have, and the paths where it has not
WantedLen(a, p) == IF Len(p) = 1 THEN a.input_channels ELSE a.kernel_size
Misshaped(a, w) == {p \in AllPaths(w) : Len(Sub(w, p)) # WantedLen(a, p)}

\* p comes before q in a depth-first walk of the list
Before(p, q) ==
  /\ p # q
  /\ \/ Len(p) < Len(q) /\ SubSeq(q, 1, Len(p)) = p
     \/ \E j \in 1..(IF Len(p) < Len(q) THEN Len(p) ELSE Len(q)) :
          /\ \A i \in 1..(j - 1) : p[i] = q[i]
          /\ p[j] < q[j]

LevelMessage(p) ==
  IF Len(p) = 1 THEN "Kernel weights input_channels dimension mismatch."
  ELSE IF Len(p) = 2 THEN "Kernel weights height dimension mismatch."
  ELSE "Kernel weights width dimension mismatch."

\* the error of a failed construction when the constraints are taken in the
\* order kernel_size, stride, padding_mode, input_channels, output_channels,
\* list not empty, outer length, nested lengths depth-first
FirstInCodeOrder(a, w) ==
  IF a.kernel_size <= 0 THEN ValueError("Kernel size must be a positive integer.")
  ELSE IF a.stride <= 0 THEN ValueError("Stride must be a positive integer.")
  ELSE IF a.padding_mode \notin {VALID, SAME}
  THEN ValueError("Padding mode must be 0 (VALID) or 1 (SAME).")
  ELSE IF a.input_channels <= 0
  THEN ValueError("Input channels must be a positive integer.")
  ELSE IF a.output_channels <= 0
  THEN ValueError("Output channels must be a positive integer.")
  ELSE IF Len(w) = 0 THEN ValueError("Initial kernel weights cannot be empty.")
  ELSE IF Len(w) # a.output_channels
  THEN Mismatch("Kernel weights outer dimension mismatch.", a.output_channels, Len(w))
  ELSE LET p == CHOOSE x \in Misshaped(a, w) :
                  \A y \in Misshaped(a, w) \ {x} : Before(x, y)
       IN  Mismatch(LevelMessage(p), WantedLen(a, p), Len(Sub(w, p)))

\* the constraint a ValueError of the constructor names
Named(exc) ==
  CASE exc[2] = "Kernel size must be a positive integer." -> "kernel_size"
    [] exc[2] = "Stride must be a positive integer." -> "stride"
    [] exc[2] = "Padding mode must be 0 (VALID) or 1 (SAME)." -> "padding_mode"
    [] exc[2] = "Input channels must be a positive integer." -> "input_channels"
    [] exc[2] = "Output channels must be a positive integer." -> "output_channels"
    [] exc[2] = "Initial kernel weights cannot be empty." -> "outer length"
    [] exc[2] = "Kernel weights outer dimension mismatch." -> "outer length"
    [] exc[2] = "Kernel weights input_channels dimension mismatch." -> "second-level length"
    [] exc[2] = "Kernel weights height dimension mismatch." -> "third-level length"
    [] exc[2] = "Kernel weights width dimension mismatch." -> "innermost length"

\* the first constraint violated in the order of the specification's data
\* model: the four positive sizes, the padding mode, then the lengths of
\* the weight list level by level from the outermost to the innermost
FirstInListedOrder(a, w) ==
  IF a.kernel_size <= 0 THEN "kernel_size"
  ELSE IF a.stride <= 0 THEN "stride"
  ELSE IF a.input_channels <= 0 THEN "input_channels"
  ELSE IF a.output_channels <= 0 THEN "output_channels"
  ELSE IF a.padding_mode \notin {VALID, SAME} THEN "padding_mode"
  ELSE IF Len(w) # a.output_channels THEN "outer length"
  ELSE IF \E p \in Misshaped(a, w) : Len(p) = 1 THEN "second-level length"
  ELSE IF \E p \in Misshaped(a, w) : Len(p) = 2 THEN "third-level length"
  ELSE "innermost length"

\* C6 as claimed: a failed construction reports the first constraint
\* violated in the order kernel_size, stride, input_channels,
\* output_channels, padding_mode, weight lengths outermost to innermost
C6_ListedOrder ==
  \A l \in AllLayers :
    (Called(l) /\ layer[l].state = "raised") =>
      Named(layer[l].exc) = FirstInListedOrder(CallArgs(l), CallWeights(l))

\* C6 as amended: a failed construction reports, with the expected and the
\* actual length where there is one, the first constraint violated in the
\* order kernel_size, stride, padding_mode, input_channels,
\* output_channels, weight list not empty, outer length, then the nested
\* lengths in the depth-first order of the list
C6_CodeOrder ==
  \A l \in AllLayers :
    (Called(l) /\ layer[l].state = "raised") =>
      layer[l].exc = FirstInCodeOrder(CallArgs(l), CallWeights(l))

\* a construction with input_channels = 0 and padding_mode = 2 failed
C6_Witness ==
  /\ Called("conv_layer_valid")
  /\ layer["conv_layer_valid"].state = "raised"
  /\ CallArgs("conv_layer_valid").kernel_size > 0
  /\ CallArgs("conv_layer_valid").stride > 0
  /\ CallArgs("conv_layer_valid").input_channels = 0
  /\ CallArgs("conv_layer_valid").padding_mode = 2

\* the box-blur call: kernel 3, stride 1, VALID, 3 channels in, 1 out,
\* every weight 1/9, on the 3x4x4 image c*100 + h*10 + w, has returned
BoxBlurReturned(c) ==
  /\ pc[c] = "returned"
  /\ Engine(c) = NewSelf(WEIGHTS, BoxBlurArgs)
  /\ Weights(c) = BoxBlurWeights
  /\ input_image_data[c] = BoxBlurInput

\* the sum of the 27 input samples of the window of output cell (oh, ow)
WindowSum(x, oh, ow) ==
  SumTo([c \in 0..2 |->
    SumTo([h \in 0..2 |->
      SumTo([w \in 0..2 |-> x[c + 1][oh + h + 1][ow + w + 1]], 3)], 3)], 3)

\* C7 as claimed: the box-blur output has shape [1][2][2] and each cell is
\* the mean of its window, the sum of the 27 samples divided by 27
C7_WindowMean ==
  \A c \in Callers :
    BoxBlurReturned(c) =>
      /\ HasShape(Output(c), 1, 2, 2)
      /\ \A oh, ow \in 0..1 :
           Output(c)[1][oh + 1][ow + 1] =
             FDiv(WindowSum(input_image_data[c], oh, ow), Float(27))

\* C7 as amended: the box-blur output has shape [1][2][2] and each cell is
\* the sum of the 27 samples of its window divided by 9, three times the
\* mean of the window
C7_WindowSumOverNine ==
  \A c \in Callers :
    BoxBlurReturned(c) =>
      /\ HasShape(Output(c), 1, 2, 2)
      /\ \A oh, ow \in 0..1 :
           Output(c)[1][oh + 1][ow + 1] =
             FDiv(WindowSum(input_image_data[c], oh, ow), Float(9))

\* the box-blur call has returned
C7_Witness == BoxBlurReturned(1)

----------------------------------------------------------------------------
(* SpecPad: a SAME layer of any kernel size and stride is given images of  *)
(* every height and width up to that of the script's image.                *)

PadArgs ==
  {Args(k, s, SAME, 1, 1) : k \in 1..MaxPadKernel, s \in 1..MaxPadStride}

\* square images, and images whose height and width differ
PadImages ==
  {Image(1, n, n) : n \in 1..MaxPadDim}
  \cup {Image(1, n, MaxPadDim + 1 - n) : n \in 1..MaxPadDim}

\* the state after the script built a weight list for the arguments a and
\* constructed layer l from it
Built(l, a) ==
  /\ heap = [r \in {WEIGHTS} |->
               ProperWeights(a.output_channels, a.input_channels, a.kernel_size)]
  /\ layer = [m \in AllLayers |->
               IF m = l THEN ConvolutionLayer(heap, WEIGHTS, a) ELSE Unbuilt]
  /\ call_args = [m \in AllLayers |->
               IF m = l THEN <<[args |-> a, weights |-> heap[WEIGHTS]]>> ELSE <<>>]
  /\ Idle

InitPad == \E a \in PadArgs : Built("conv_layer_same_s2", a)

NextPad ==
  /\ CanCall(1, "conv_layer_same_s2")
  /\ \E x \in PadImages : ForwardBegin(1, "conv_layer_same_s2", x)

SpecPad == InitPad /\ [][NextPad]_vars

\* the padding offset the claims give an axis of input size n
ClaimedPadding(e, n) ==
  LET d == CHOOSE x \in 1..n : IsCeil(x, n, e.stride)
  IN  Max(0, ((d - 1) * e.stride + e.kernel_size - n) \div 2)

\* C10: in SAME mode, with output_dim = ceil(n/s) on each axis, the padding
\* offset forward uses on that axis is
\* max(0, floor(((output_dim - 1) * s + k - n) / 2)), the numerator odd or
\* negative included; for k = 3, s = 2, n = 32 the output dimension is 16
\* and the offset 0
C10_SamePadding ==
  \A c \in Callers :
    (pc[c] = "loop" /\ Engine(c).padding_mode = SAME) =>
      LET e == Engine(c)
          f == frame[c]
      IN  /\ IsCeil(f.output_height, f.input_height, e.stride)
          /\ IsCeil(f.output_width, f.input_width, e.stride)
          /\ f.padding_h = ClaimedPadding(e, f.input_height)
          /\ f.padding_w = ClaimedPadding(e, f.input_width)
          /\ (e.kernel_size = KERNEL_SIZE /\ e.stride = STRIDE_2
              /\ f.input_height = INPUT_HEIGHT /\ f.input_width = INPUT_HEIGHT) =>
               /\ f.output_height = 16 /\ f.output_width = 16
               /\ f.padding_h = 0 /\ f.padding_w = 0

\* forward derived the offsets for a numerator that is odd and negative on
\* one axis (k = 1, s = 3, n = 2) and positive on the other
C10_Witness ==
  /\ pc[1] = "loop"
  /\ Engine(1).kernel_size = 1 /\ Engine(1).stride = 3
  /\ frame[1].input_height = 2 /\ frame[1].output_height = 1
  /\ frame[1].padding_h = 0
  /\ frame[1].input_width = MaxPadDim + 1 - 2

----------------------------------------------------------------------------
(* SpecConc: several callers call forward on one layer, their calls         *)
(* interleaved pass by pass.                                               *)

ConcArgs ==
  {Args(k, STRIDE, pm, 1, OUTPUT_CHANNELS) : k \in {1, ConcDim}, pm \in {VALID, SAME}}

ConcImages == {Image(1, h, 1) : h \in 1..ConcDim}

InitConc == \E a \in ConcArgs : Built("conv_layer_valid", a)

NextConc ==
  \E c \in Callers :
    \/ /\ CanCall(c, "conv_layer_valid")
       /\ \E x \in ConcImages : ForwardBegin(c, "conv_layer_valid", x)
    \/ ForwardCell(c)
    \/ ForwardReturn(c)

SpecConc == InitConc /\ [][NextConc]_vars

\* the call of caller c run alone on a layer freshly constructed from the
\* arguments and the weight list the called layer was constructed from
Alone(c) ==
  LET l == frame[c].self
      fresh == ConvolutionLayer([r \in {WEIGHTS} |-> CallWeights(l)],
                                WEIGHTS, CallArgs(l))
  IN  forward(fresh.self[1], CallWeights(l), input_image_data[c])

\* the outcome of the call of caller c
Outcome(c) ==
  IF pc[c] = "returned" THEN [exc |-> <<>>, value |-> Output(c)]
  ELSE [exc |-> frame[c].exc, value |-> <<>>]

\* no step taken while calls are under way changes a layer, the weight
\* list, or the input of a call that has begun
ForwardIsPure ==
  /\ layer' = layer
  /\ heap' = heap
  /\ \A c \in Callers :
       pc[c] # "idle" => input_image_data'[c] = input_image_data[c]

\* two calls never hold the same output list
OutputsDisjoint ==
  \A c, d \in Callers :
    (c # d /\ frame[c].output_image # 0 /\ frame[d].output_image # 0) =>
      frame[c].output_image # frame[d].output_image

\* C8: under every interleaving of forward calls on one layer, no step
\* changes the layer, its weights or a caller's input; every call has an
\* output list of its own; and every finished call has the outcome the same
\* call has when run alone on a freshly constructed layer
C8_ForwardPure ==
  /\ [][ForwardIsPure]_vars
  /\ []OutputsDisjoint
  /\ [](\A c \in Callers : pc[c] \in {"returned", "raised"} => Outcome(c) = Alone(c))

\* caller 1 began after caller 2 and returned while caller 2, on another
\* input, was still in its loop
C8_Witness ==
  /\ pc[1] = "returned" /\ pc[2] = "loop"
  /\ frame[2].output_image = 1 /\ frame[1].output_image = 2
  /\ frame[2].cell # <<0, 0, 0>>
  /\ input_image_data[1] # input_image_data[2]
  /\ Engine(1).kernel_size > 1

----------------------------------------------------------------------------
(* SpecOwn: the script constructs its two layers from one weight list,     *)
(* writes into the list, and calls forward.                                *)

OwnArgs ==
  {Args(1, s, pm, 1, OUTPUT_CHANNELS) : s \in {STRIDE, STRIDE_2}, pm \in {VALID, SAME}}

InitOwn ==
  /\ heap = [r \in {WEIGHTS} |-> ProperWeights(1, 1, 1)]
  /\ layer = [l \in AllLayers |-> Unbuilt]
  /\ call_args = [l \in AllLayers |-> <<>>]
  /\ Idle

NextOwn ==
  \/ \E l \in AllLayers, a \in OwnArgs : Construct(l, a)
  \/ \E v \in {Zero, Float(1)} : WriteWeight(0, 0, 0, 0, v)
  \/ \E l \in AllLayers : ForwardBegin(1, l, Image(1, 2, 2))
  \/ ForwardCell(1)
  \/ ForwardReturn(1)

SpecOwn == InitOwn /\ [][NextOwn]_vars

\* C9: the weights a layer reads in a forward call are those of its
\* construction, whatever the caller wrote into the list it passed to the
\* constructor since: a returned call has the outcome of the same call on
\* a layer freshly constructed from the list as it was at construction
C9_WeightsOwned ==
  \A c \in Callers : pc[c] = "returned" => Outcome(c) = Alone(c)

====
